---- MODULE Spec2Model ----
(***************************************************************************)
(* Base pool scanner: discovery of pool addresses (registry enumeration or *)
(* creation-event scan), batched detail fetch through the multicall        *)
(* aggregate contract, positional decoding and liquidity/whitelist         *)
(* classification.                                                         *)
(*                                                                         *)
(* The repository holds several revisions of the scanner script.  Three   *)
(* of them are modelled here, selected by the variable `mode`:             *)
(*   "clean"  : src/src/fetch_pools.ts        ("Clean Mode")               *)
(*   "strict" : src/unnamed/part_002, l.1-277 ("Final Strict Mode")        *)
(*   "first"  : src/unnamed/part_001          (no retry, no pacing)        *)
(* Spec and SpecClassify run the clean and the strict revision, SpecFirst  *)
(* runs the first one, SpecConfig runs the clean and the strict revision   *)
(* on a PROTOCOLS array other than the one in the source.                  *)
(*                                                                         *)
(* Numbers.  TLC integers are 32 bit, the script's thresholds are up to    *)
(* 5e21.  Every numeric program constant is replaced by twice its rank in  *)
(* the ascending order of all thresholds of the clean and the strict       *)
(* revision, so that every comparison between two constants is preserved   *)
(* and there is a value strictly between any two of them:                  *)
(*   1e5 -> 2, 1e6 -> 4, 5e8 -> 6, 1.5e9 -> 8, 1e13 -> 10, 1e14 -> 12,     *)
(*   1e17 -> 14, 5e17 -> 16, 5e21 -> 18.                                   *)
(* The first revision compares with 0n, kept as 0, and 1000n, which is 1.  *)
(* Addresses, block numbers and batch sizes are scaled to small numbers in *)
(* the same way.  An ABI word is a natural number, a return buffer is a    *)
(* sequence of words, the empty buffer '0x' is << >>.                      *)
(* The retry delays of getLogsWithRetry are kept in milliseconds.          *)
(***************************************************************************)
EXTENDS Integers, Sequences, FiniteSets, TLC

\* ------------------------------------------------------------ bounds
\* Largest word the classifier inputs are drawn from.
MaxWord == 19
\* Most pool addresses that exist on chain, all registries and events together.
MaxPools == 4
\* Highest block height the node may report.
MaxHead == 5
\* Most creation events the scanned factory has emitted.
MaxEvents == 1

\* ------------------------------------------------------------ configuration
Modes == {"clean", "strict"}

BATCH_SIZE_CLEAN == 2
BATCH_SIZE_STRICT == 3
ENUM_CHUNK_STRICT == 4
BATCH_SIZE_FIRST == 2
BATCH_SIZE(m) ==
  IF m = "clean" THEN BATCH_SIZE_CLEAN
  ELSE IF m = "strict" THEN BATCH_SIZE_STRICT ELSE BATCH_SIZE_FIRST
\* Chunk size of the registry enumeration: BATCH_SIZE in the clean and in the
\* first revision, the literal 500 in the strict one.
EnumChunk(m) == IF m = "strict" THEN ENUM_CHUNK_STRICT ELSE BATCH_SIZE(m)

\* A revision without a sleep at the end of a detail chunk.
PacesNever(m) == FALSE

\* Whether the detail loop of a revision ends each chunk with
\* await sleep(BATCH_DELAY_MS).
Paces(m) == m # "first"

MIN_ETH_LIQUIDITY_CLEAN == 14
MIN_USDC_LIQUIDITY_CLEAN == 6
OTHER_LIQUIDITY_CLEAN == 4
V3_LIQUIDITY_CLEAN == 2
MIN_ETH_LIQUIDITY_STRICT == 16
MIN_USDC_LIQUIDITY_STRICT == 8
MIN_OTHER_LIQUIDITY_STRICT == 18
MIN_V3_LIQ_LOW == 10
MIN_V3_LIQ_HIGH == 12
V3_LIQUIDITY_FIRST == 0
RESERVE_FIRST == 1

MIN_ETH_LIQUIDITY(m) == IF m = "clean" THEN MIN_ETH_LIQUIDITY_CLEAN ELSE MIN_ETH_LIQUIDITY_STRICT
MIN_USDC_LIQUIDITY(m) == IF m = "clean" THEN MIN_USDC_LIQUIDITY_CLEAN ELSE MIN_USDC_LIQUIDITY_STRICT
\* The amount an OTHER-class token is compared with: the literal 1000000n in the
\* clean revision, MIN_OTHER_LIQUIDITY in the strict one.
MIN_OTHER_LIQUIDITY(m) == IF m = "clean" THEN OTHER_LIQUIDITY_CLEAN ELSE MIN_OTHER_LIQUIDITY_STRICT

\* Whitelisted token addresses, one per class, and a token outside the whitelist.
WETH == 1
USDC == 2
AERO == 3
JUNK == 0
TOKEN_CONFIG == (WETH :> "ETH") @@ (USDC :> "USD") @@ (AERO :> "OTHER")
isWhitelisted(addr) == addr \in DOMAIN TOKEN_CONFIG
getTokenType(addr) == IF addr \in DOMAIN TOKEN_CONFIG THEN TOKEN_CONFIG[addr] ELSE "UNKNOWN"

START_BLOCK == 1
STEP_CLEAN == 2
STEP_STRICT == 3
STEP_FIRST == 4
RETRIES == 5
RETRY_DELAY_BASE == 2000
RETRY_SLEEP_STRICT == 1000

\* A window loop whose `from += step` adds nothing.
StepZero(m) == 0

Step(m) == IF m = "clean" THEN STEP_CLEAN ELSE IF m = "strict" THEN STEP_STRICT ELSE STEP_FIRST

PROTOCOLS ==
  << [name |-> "Aerodrome_V2", type |-> "v2", router |-> 81, method |-> "allPools",
      abiType |-> "aero_v2"],
     [name |-> "BaseSwap", type |-> "v2", router |-> 82, method |-> "allPairs",
      abiType |-> "std_v2"],
     [name |-> "Aerodrome_CL", type |-> "cl", router |-> 83, quoter |-> 93,
      method |-> "allPools", abiType |-> "v3"],
     [name |-> "Uniswap_V3", type |-> "v3", router |-> 84, quoter |-> 94,
      method |-> "logs", startBlock |-> START_BLOCK, abiType |-> "v3"] >>

\* The values of abiType that the encode and decode branches name.
KnownAbiTypes == {"v3", "aero_v2", "std_v2"}

\* The functions whose results the decoder reads for one address, in the order
\* of its results[resultIdx++]: the v3 branch, the aero_v2 branch and the else
\* branch for every other abiType.
DecodeNames(abiType) ==
  IF abiType = "v3" THEN <<"token0", "token1", "liquidity", "fee", "tickSpacing">>
  ELSE IF abiType = "aero_v2" THEN <<"token0", "token1", "getReserves", "stable">>
  ELSE <<"token0", "token1", "getReserves">>

\* The number of ABI words the return value of a function needs (getReserves
\* returns three words).
WordsOf(fn) == IF fn = "getReserves" THEN 3 ELSE 1

\* The words each decode of one address needs, in decode order.
CallWords(abiType) ==
  [ j \in 1..Len(DecodeNames(abiType)) |-> WordsOf(DecodeNames(abiType)[j]) ]

\* The result slots the decoder consumes for an address that decodes.
CallsPerAddress(abiType) == Len(CallWords(abiType))

\* An encode loop that asks a concentrated-liquidity pool for fee before liquidity.
CallNamesFeeFirst(abiType) ==
  IF abiType = "v3" THEN <<"token0", "token1", "fee", "liquidity", "tickSpacing">>
  ELSE IF abiType = "aero_v2" THEN <<"token0", "token1", "getReserves", "stable">>
  ELSE <<"token0", "token1", "getReserves">>

\* The functions the encode loop calls on each address: the v3 branch, the
\* aero_v2 branch, and the else branch for every other abiType.
CallNames(abiType) ==
  IF abiType = "v3" THEN <<"token0", "token1", "liquidity", "fee", "tickSpacing">>
  ELSE IF abiType = "aero_v2" THEN <<"token0", "token1", "getReserves", "stable">>
  ELSE <<"token0", "token1", "getReserves">>

\* `calls` of a detail chunk: for each address of the batch, in order, the calls
\* of the variant.
DetailCalls(abiType, batch) ==
  [ n \in 1..(Len(batch) * Len(CallNames(abiType))) |->
      [target |-> batch[((n - 1) \div Len(CallNames(abiType))) + 1],
       fn |-> CallNames(abiType)[((n - 1) % Len(CallNames(abiType))) + 1]] ]

\* ------------------------------------------------------------ classifier
\* Side test of the constant-product filter with an exclusive OTHER comparison
\* in both revisions.
SideClearsExclusive(m, t, r) ==
  /\ isWhitelisted(t)
  /\ \/ getTokenType(t) = "ETH" /\ r > MIN_ETH_LIQUIDITY(m)
     \/ getTokenType(t) = "USD" /\ r > MIN_USDC_LIQUIDITY(m)
     \/ getTokenType(t) = "OTHER" /\ r > MIN_OTHER_LIQUIDITY(m)

\* One side of the constant-product filter: the token is whitelisted and its own
\* reserve reaches the amount of its class.
SideClears(m, t, r) ==
  /\ isWhitelisted(t)
  /\ \/ getTokenType(t) = "ETH" /\ r >= MIN_ETH_LIQUIDITY(m)
     \/ getTokenType(t) = "USD" /\ r >= MIN_USDC_LIQUIDITY(m)
     \/ getTokenType(t) = "OTHER" /\ IF m = "clean" THEN r > MIN_OTHER_LIQUIDITY(m)
                                     ELSE r >= MIN_OTHER_LIQUIDITY(m)

\* The constant-product filter without the stability test.
ValidV2IgnoringStable(m, t0, t1, r0, r1, isStable) ==
  SideClears(m, t0, r0) \/ SideClears(m, t1, r1)

\* `valid` after the V2 / Aero V2 branch (first revision: both reserves above
\* 1000n, no token class).
ValidV2(m, t0, t1, r0, r1, isStable) ==
  /\ ~isStable
  /\ IF m = "first" THEN r0 > RESERVE_FIRST /\ r1 > RESERVE_FIRST
     ELSE SideClears(m, t0, r0) \/ SideClears(m, t1, r1)

\* A V3 branch that accepts a band of liquidity only.
ValidV3Band(m, t0, t1, liq) ==
  liq > V3_LIQUIDITY_CLEAN /\ liq <= MIN_V3_LIQ_HIGH

\* `valid` after the V3 branch.
ValidV3(m, t0, t1, liq) ==
  IF m = "clean" THEN liq > V3_LIQUIDITY_CLEAN
  ELSE IF m = "first" THEN liq > V3_LIQUIDITY_FIRST
  ELSE IF isWhitelisted(t0) /\ isWhitelisted(t1) THEN liq > MIN_V3_LIQ_LOW
  ELSE (isWhitelisted(t0) \/ isWhitelisted(t1)) /\ liq > MIN_V3_LIQ_HIGH

\* The condition of the final if without the whitelist test.
FinalGateOpen(m, valid, t0, t1) == valid

\* The condition of the final `if` that guards allPools.push.
FinalGate(m, valid, t0, t1) ==
  IF m \in {"clean", "first"} THEN valid /\ (isWhitelisted(t0) \/ isWhitelisted(t1))
  ELSE valid

\* A decoded pool state: st.abiType, st.t0, st.t1 and, by variant, st.r0, st.r1,
\* st.isStable or st.liq, st.fee, st.ts.  Whether it is pushed to allPools.
Accepted(m, st) ==
  IF st.abiType = "v3"
  THEN FinalGate(m, ValidV3(m, st.t0, st.t1, st.liq), st.t0, st.t1)
  ELSE FinalGate(m, ValidV2(m, st.t0, st.t1, st.r0, st.r1, st.isStable), st.t0, st.t1)

\* ------------------------------------------------------------ decoding
\* decodeFunctionResult succeeds on a buffer that holds at least the words of the
\* return type; it throws on a missing, empty or short buffer.
Decodable(results, slot, words) ==
  /\ slot <= Len(results)
  /\ Len(results[slot]) >= words

\* The calls of one address, read from results[idx + 1 ..] (idx counts the
\* slots consumed so far), that fail to decode.
FailingCalls(abiType, results, idx) ==
  { j \in 1..CallsPerAddress(abiType) :
      ~Decodable(results, idx + j, CallWords(abiType)[j]) }

Min(S) == CHOOSE x \in S : \A y \in S : x <= y

\* The decoded state of one address read at idx: an address is the word, a bool
\* is word # 0, getReserves gives its first two words.
DecodeState(abiType, results, idx) ==
  IF abiType = "v3"
  THEN [abiType |-> abiType, t0 |-> results[idx + 1][1], t1 |-> results[idx + 2][1],
        liq |-> results[idx + 3][1], fee |-> results[idx + 4][1],
        ts |-> results[idx + 5][1]]
  ELSE [abiType |-> abiType, t0 |-> results[idx + 1][1], t1 |-> results[idx + 2][1],
        r0 |-> results[idx + 3][1], r1 |-> results[idx + 3][2],
        isStable |-> IF abiType = "aero_v2" THEN results[idx + 4][1] # 0 ELSE FALSE]

\* The PoolOutput object pushed for an accepted pool.
Output(m, proto, poolAddr, st) ==
  IF m \in {"clean", "first"}
  THEN IF proto.type = "v2"
       THEN [name |-> <<proto.name, st.t0, poolAddr>>, token_a |-> st.t0,
             token_b |-> st.t1, router |-> proto.router, protocol |-> proto.type,
             quoter |-> poolAddr, fee |-> 3000]
       ELSE [name |-> <<proto.name, st.t0, poolAddr>>, token_a |-> st.t0,
             token_b |-> st.t1, router |-> proto.router, protocol |-> proto.type,
             fee |-> st.fee, tick_spacing |-> st.ts, pool_fee |-> st.fee,
             quoter |-> proto.quoter, pool |-> poolAddr]
  ELSE IF proto.type = "v2"
       THEN [name |-> <<proto.name, st.t0, st.t1>>, token_a |-> st.t0,
             token_b |-> st.t1, router |-> proto.router, protocol |-> proto.type,
             quoter |-> poolAddr]
       ELSE [name |-> <<proto.name, st.t0, st.t1>>, token_a |-> st.t0,
             token_b |-> st.t1, router |-> proto.router, protocol |-> proto.type,
             quoter |-> proto.quoter, pool |-> poolAddr,
             fee |-> st.fee, tick_spacing |-> st.ts, pool_fee |-> st.fee]

\* The result index after one address whose slice starts at idx: every decode
\* evaluates results[idx++] before it can throw, so a throw at call j leaves idx + j.
NextIdx(abiType, results, idx) ==
  IF FailingCalls(abiType, results, idx) = {}
  THEN idx + CallsPerAddress(abiType)
  ELSE idx + Min(FailingCalls(abiType, results, idx))

\* A per-address loop whose decision also depends on how many result slots were
\* consumed before the address: only the first address of a chunk can be kept.
AddressOutcomeFirstOnly(m, abiType, results, idx) ==
  IF FailingCalls(abiType, results, idx) # {} THEN "threw"
  ELSE IF idx = 0 /\ Accepted(m, DecodeState(abiType, results, idx)) THEN "kept"
  ELSE "dropped"

\* One iteration of the per-address loop: what happened to the address.
\*   "threw"   a decode threw, caught by the inner catch
\*   "skipped" strict revision, `if (isStable) continue`
\*   "kept"    pushed to allPools
\*   "dropped" decoded and not pushed
AddressOutcome(m, abiType, results, idx) ==
  IF FailingCalls(abiType, results, idx) # {} THEN "threw"
  ELSE IF m = "strict" /\ abiType = "aero_v2"
          /\ DecodeState(abiType, results, idx).isStable THEN "skipped"
  ELSE IF Accepted(m, DecodeState(abiType, results, idx)) THEN "kept"
  ELSE "dropped"

\* The per-address loop over a chunk, from its k-th address on: the trace of
\* entries [addr, start, outcome] (and st, the decoded state, when decoded).
RECURSIVE DecodeLoop(_, _, _, _, _, _)
DecodeLoop(m, abiType, batch, results, k, idx) ==
  IF k > Len(batch) THEN << >>
  ELSE LET outcome == AddressOutcome(m, abiType, results, idx)
           entry == IF outcome = "threw"
                    THEN [addr |-> batch[k], start |-> idx, outcome |-> outcome]
                    ELSE [addr |-> batch[k], start |-> idx, outcome |-> outcome,
                          st |-> DecodeState(abiType, results, idx)]
       IN <<entry>> \o DecodeLoop(m, abiType, batch, results, k + 1,
                                  NextIdx(abiType, results, idx))

\* What one iteration of the per-address loop pushes: the single push behind
\* the final `if`, or nothing.
RecordsOf(m, proto, e) ==
  IF e.outcome = "kept" THEN << Output(m, proto, e.addr, e.st) >> ELSE << >>

\* The records a decode trace pushes, in order.
RECURSIVE Pushed(_, _, _)
Pushed(m, proto, trace) ==
  IF trace = << >> THEN << >>
  ELSE RecordsOf(m, proto, trace[1]) \o Pushed(m, proto, Tail(trace))

\* An accumulator that takes new records at its front.
Unshift(acc, records) == records \o acc

\* allPools.push(output) for each record of a chunk, in order.
Push(acc, records) == acc \o records

CountOutcome(trace, outcomes) ==
  Cardinality({ k \in 1..Len(trace) : trace[k].outcome \in outcomes })

\* A per-address catch that counts nothing.
DroppedInElseOnly(trace) == CountOutcome(trace, {"dropped"})

\* The droppedCount++ of a chunk: one in the else of the final `if`, one in the
\* per-address catch.
DroppedIn(trace) == CountOutcome(trace, {"dropped", "threw"})

\* ------------------------------------------------------------ the chain
\* The address the registry of protocol q returns for index j, and the pool
\* address carried by the creation event of block b.
PoolAt(q, j) == 10 * q + j
EventPool(b) == 40 + b

\* What the contract at a pool address can answer to the calls of a variant: one
\* return buffer per call.  A live pool that both revisions accept, one with no
\* whitelisted token (for Aerodrome V2: a stable pool), an address with no code
\* (every buffer empty), and a contract whose token0 alone returns nothing.
Contracts(abiType) ==
  IF abiType = "v3"
  THEN { << <<WETH>>, <<JUNK>>, <<13>>, <<5>>, <<7>> >>,
         << <<JUNK>>, <<JUNK>>, <<15>>, <<5>>, <<7>> >>,
         << << >>, << >>, << >>, << >>, << >> >>,
         << << >>, <<AERO>>, <<13>>, <<6>>, <<8>> >> }
  ELSE IF abiType = "aero_v2"
  THEN { << <<WETH>>, <<JUNK>>, <<17, 9, 30>>, <<0>> >>,
         << <<USDC>>, <<WETH>>, <<19, 17, 32>>, <<1>> >>,
         << << >>, << >>, << >>, << >> >>,
         << << >>, <<USDC>>, <<9, 19, 33>>, <<0>> >> }
  ELSE { << <<WETH>>, <<JUNK>>, <<17, 9, 30>> >>,
         << <<JUNK>>, <<JUNK>>, <<19, 19, 31>> >>,
         << << >>, << >>, << >> >>,
         << << >>, <<USDC>>, <<9, 19, 33>> >> }

\* returnData of one aggregate call over a chunk: the buffers of its addresses,
\* call by call, in the order of the calls.
RECURSIVE Flatten(_)
Flatten(answers) ==
  IF answers = << >> THEN << >> ELSE Head(answers) \o Flatten(Tail(answers))

\* The pool addresses of the creation events of blocks lo..hi, in block order.
RECURSIVE LogsOf(_, _, _)
LogsOf(events, lo, hi) ==
  IF lo > hi THEN << >>
  ELSE (IF lo \in events THEN << EventPool(lo) >> ELSE << >>) \o LogsOf(events, lo + 1, hi)

InSeq(x, s) == \E k \in 1..Len(s) : s[k] = x

\* Set.add for each element of logs, in order (insertion order is kept).
RECURSIVE AddAll(_, _)
AddAll(set, logs) ==
  IF logs = << >> THEN set
  ELSE AddAll(IF InSeq(Head(logs), set) THEN set ELSE Append(set, Head(logs)), Tail(logs))

Lesser(a, b) == IF a < b THEN a ELSE b

\* ------------------------------------------------------------ state
VARIABLES
  mode,           \* which revision of the script runs
  protocols,      \* the PROTOCOLS array
  pc,             \* where main() is
  p,              \* index of `proto` in PROTOCOLS
  poolAddresses,  \* the addresses discovered for the current protocol
  uniquePools,    \* strict revision: the Set of the log scan, in insertion order
  currentBlock,   \* result of getBlockNumber
  from,           \* start of the current log window
  attempt,        \* getLogsWithRetry's loop variable i
  count,          \* the registry's count
  i,              \* loop variable of the enumeration loop, then of the detail loop
  allPools,       \* the accumulator
  keptCount,      \* keptCount (clean), kept (strict)
  droppedCount,   \* droppedCount (clean)
  written,        \* whether pools.json was written
  output,         \* what was written
  chainEvents,    \* blocks in which the factory emitted a creation event
  found,          \* pool addresses given out by the chain so far
  lastChunk,      \* history: the most recent detail chunk, its calls and decode trace
  exhausted,      \* history: log windows whose every attempt failed
  surfaced,       \* history: log windows whose failure reached main's catch
  waited,         \* history: ms slept after the latest failed attempt of the window
  requested,      \* history: the registry indices requested, one sequence per chunk
  scan,           \* history: the windows [from, to] fetched by the event scan
  issued,         \* history: detail aggregate calls issued for the current protocol
  chunks,         \* history: the batches of those calls, in order
  failedBatches,  \* full scanner, history: index ranges of the batches that failed
  settled,        \* history: of those, the calls that returned or failed
  slept,          \* history: pacing sleeps completed in the current detail loop
  probe,          \* single-pool run: the on-chain state of the pool
  verdict         \* single-pool run: what the loop body did with it

vars == << mode, protocols, pc, p, poolAddresses, uniquePools, currentBlock, from, attempt,
           count, i, allPools, keptCount, droppedCount, written, output, chainEvents,
           found, lastChunk, exhausted, surfaced, waited, requested, scan, issued, chunks, failedBatches,
           settled,
           slept, probe, verdict >>

configVars == << mode, protocols >>
discoveryVars == << poolAddresses, uniquePools, currentBlock, from, attempt, count,
                    chainEvents, found, exhausted, surfaced, waited, requested, scan >>
detailVars == << allPools, keptCount, droppedCount, lastChunk, issued, chunks,
                failedBatches, settled, slept >>
outputVars == << written, output >>
probeVars == << probe, verdict >>

NumProtocols == Len(protocols)

NoChunk == [status |-> "none"]
NoProbe == [abiType |-> "none"]
NoScan == [done |-> FALSE, start |-> 0, head |-> 0, windows |-> {}]

InitPipeline ==
  /\ pc = "start"
  /\ p = 1
  /\ poolAddresses = << >>
  /\ uniquePools = << >>
  /\ currentBlock = 0
  /\ from = 0
  /\ attempt = 0
  /\ count = 0
  /\ i = 0
  /\ allPools = << >>
  /\ keptCount = 0
  /\ droppedCount = 0
  /\ written = FALSE
  /\ output = << >>
  /\ chainEvents = {}
  /\ found = 0
  /\ lastChunk = NoChunk
  /\ exhausted = {}
  /\ surfaced = {}
  /\ waited = 0
  /\ requested = << >>
  /\ scan = NoScan
  /\ issued = 0
  /\ chunks = << >>
  /\ failedBatches = {}
  /\ settled = 0
  /\ slept = 0

Init ==
  /\ mode \in Modes
  /\ protocols = PROTOCOLS
  /\ InitPipeline
  /\ probe = NoProbe
  /\ verdict = "none"

\* ------------------------------------------------------------ main()
\* Where main() goes once the address list of the current protocol is complete:
\* into the detail loop, or, with no address, past it to the next protocol.
PcAfterDiscovery(addrs) == IF addrs = << >> THEN "proto" ELSE "detail"

\* A protocol loop that moves on to the next protocol as soon as discovery ends.
PAfterDiscoveryEarly(addrs) == p + 1

PAfterDiscovery(addrs) == IF addrs = << >> THEN p + 1 ELSE p

\* provider.getNetwork() at startup: the clean and the first revision exit when
\* it fails, the strict revision does not make the call.
Connect ==
  /\ pc = "start"
  /\ \/ pc' = "proto"
     \/ mode # "strict" /\ pc' = "exited"
  /\ UNCHANGED << configVars, p, i, discoveryVars, detailVars, outputVars, probeVars >>

\* Head of `for (const proto of PROTOCOLS)`: a protocol is left to scan.
BeginProtocol ==
  /\ pc = "proto"
  /\ p <= NumProtocols
  /\ poolAddresses' = << >>
  /\ uniquePools' = << >>
  /\ keptCount' = 0
  /\ droppedCount' = 0
  /\ requested' = << >>
  /\ scan' = NoScan
  /\ lastChunk' = NoChunk
  /\ issued' = 0
  /\ chunks' = << >>
  /\ settled' = 0
  /\ slept' = 0
  /\ pc' = IF protocols[p].method = "logs" THEN "getBlockNumber" ELSE "count"
  /\ UNCHANGED << configVars, p, i, currentBlock, from, attempt, count, chainEvents, found,
                  exhausted, surfaced, waited, allPools, failedBatches, outputVars,
                  probeVars >>

\* await provider.getBlockNumber(), not inside any try: a failure rejects main().
\* On success the window loop starts at startBlock, or is not entered at all.
GetBlockNumber ==
  /\ pc = "getBlockNumber"
  /\ \/ \E head \in 0..MaxHead :
          \E ev \in SUBSET (protocols[p].startBlock..head) :
            /\ Cardinality(ev) <= Lesser(MaxEvents, MaxPools - found)
            /\ currentBlock' = head
            /\ chainEvents' = ev
            /\ found' = found + Cardinality(ev)
            /\ from' = protocols[p].startBlock
            /\ attempt' = 0
            /\ scan' = [done |-> ~(protocols[p].startBlock < head),
                        start |-> protocols[p].startBlock, head |-> head, windows |-> {}]
            /\ IF protocols[p].startBlock < head
               THEN pc' = "getLogs" /\ p' = p
               ELSE pc' = "proto" /\ p' = p + 1
     \/ /\ pc' = "aborted"
        /\ UNCHANGED << p, currentBlock, chainEvents, found, from, attempt, scan >>
  /\ UNCHANGED << configVars, i, poolAddresses, uniquePools, count, exhausted, surfaced, waited,
                  requested, detailVars, outputVars, probeVars >>

\* to = Math.min(from + step, currentBlock)
WindowTo == Lesser(from + Step(mode), currentBlock)

\* End of one iteration of the window loop over [from, to], the scan having
\* collected pa (poolAddresses) and up (strict: uniquePools): the next window, or
\* the end of discovery.
WindowDone(pa, up) ==
  /\ from' = from + Step(mode)
  /\ attempt' = 0
  /\ waited' = 0
  /\ uniquePools' = up
  /\ scan' = [scan EXCEPT !.windows = @ \cup { << from, WindowTo >> },
                          !.done = ~(from + Step(mode) < currentBlock)]
  /\ IF from + Step(mode) < currentBlock
     THEN /\ poolAddresses' = pa
          /\ pc' = "getLogs"
          /\ p' = p
     ELSE /\ poolAddresses' = (IF mode = "strict" THEN up ELSE pa)
          /\ pc' = PcAfterDiscovery(IF mode = "strict" THEN up ELSE pa)
          /\ p' = PAfterDiscovery(IF mode = "strict" THEN up ELSE pa)

\* The sleep of getLogsWithRetry after the failed attempt with loop variable a:
\* `2000 * (i + 1)` (clean), `sleep(1000)` (strict).
RetryDelay(m, a) ==
  IF m = "strict" THEN RETRY_SLEEP_STRICT ELSE RETRY_DELAY_BASE * (a + 1)

\* A retry loop that allows one attempt more.
LastAttemptLate(a) == a = RETRIES

\* Whether the attempt with loop variable a is the last one of getLogsWithRetry:
\* `i === retries - 1` (clean), the loop test `i < retries` after i++ (strict).
LastAttempt(a) == a = RETRIES - 1

\* One provider.getLogs attempt of getLogsWithRetry for the window [from, to].
GetLogs ==
  /\ pc = "getLogs"
  /\ \/ \* the attempt succeeds: every log's pool is pushed (clean) or added (strict)
        /\ WindowDone(poolAddresses \o LogsOf(chainEvents, from, WindowTo),
                      AddAll(uniquePools, LogsOf(chainEvents, from, WindowTo)))
        /\ UNCHANGED << exhausted, surfaced >>
     \/ \* the attempt fails and another one follows after the sleep
        /\ ~LastAttempt(attempt)
        /\ attempt' = attempt + 1
        /\ waited' = RetryDelay(mode, attempt)
        /\ UNCHANGED << pc, p, from, poolAddresses, uniquePools, exhausted, surfaced, scan >>
     \/ \* the last attempt fails: the clean revision rethrows into main's catch,
        \* the strict revision returns []
        /\ LastAttempt(attempt)
        /\ exhausted' = exhausted \cup {from}
        /\ surfaced' = IF mode = "clean" THEN surfaced \cup {from} ELSE surfaced
        /\ WindowDone(poolAddresses, uniquePools)
  /\ UNCHANGED << configVars, i, currentBlock, count, chainEvents, found, requested,
                  detailVars, outputVars, probeVars >>

\* First revision: await provider.getLogs for the window [from, to], called once
\* and not inside any try: a failure rejects main().
GetLogsFirst ==
  /\ pc = "getLogs"
  /\ \/ /\ WindowDone(poolAddresses \o LogsOf(chainEvents, from, WindowTo), uniquePools)
     \/ /\ pc' = "aborted"
        /\ UNCHANGED << p, from, attempt, waited, poolAddresses, uniquePools, scan >>
  /\ UNCHANGED << configVars, i, currentBlock, count, chainEvents, found, exhausted,
                  surfaced, requested, detailVars, outputVars, probeVars >>

\* await factory[proto.countMethod](), not inside any try.
ReadCount ==
  /\ pc = "count"
  /\ \/ \E c \in 0..(MaxPools - found) :
          /\ count' = c
          /\ found' = found + c
          /\ pc' = IF c > 0 THEN "enumerate" ELSE "proto"
          /\ p' = IF c > 0 THEN p ELSE p + 1
     \/ /\ pc' = "aborted"
        /\ UNCHANGED << p, count, found >>
  /\ i' = 0
  /\ UNCHANGED << configVars, poolAddresses, uniquePools, currentBlock, from, attempt,
                  chainEvents, exhausted, surfaced, waited, requested, scan, detailVars,
                  outputVars, probeVars >>

\* allPools(j) / allPairs(j) for j in lo..hi-1, decoded in order.
RECURSIVE RegistrySlice(_, _, _)
RegistrySlice(q, lo, hi) ==
  IF lo >= hi THEN << >> ELSE << PoolAt(q, lo) >> \o RegistrySlice(q, lo + 1, hi)

\* The end of an enumeration chunk without the clamp to count.
EnumEndUnclamped(lo, m, c) == lo + EnumChunk(m)

\* end = Math.min(i + BATCH_SIZE, count)
EnumEnd(lo, m, c) == Lesser(lo + EnumChunk(m), c)

\* `calls` of an enumeration chunk, as the registry indices j = lo .. hi-1 they ask for.
EnumIndices(lo, hi) == [ n \in 1..(hi - lo) |-> lo + n - 1 ]

\* One chunk of the enumeration loop: await multicall.aggregate(calls), not inside
\* any try.  The clean revision then sleeps; the others go on at once.
EnumerateChunk ==
  /\ pc = "enumerate"
  /\ \/ /\ poolAddresses' =
             poolAddresses \o RegistrySlice(p, i, EnumEnd(i, mode, count))
        /\ requested' = Append(requested, EnumIndices(i, EnumEnd(i, mode, count)))
        /\ IF mode = "clean"
           THEN pc' = "enumSleep" /\ i' = i /\ p' = p
           ELSE IF i + EnumChunk(mode) < count
                THEN pc' = "enumerate" /\ i' = i + EnumChunk(mode) /\ p' = p
                ELSE pc' = "detail" /\ i' = 0 /\ p' = p
     \/ /\ pc' = "aborted"
        /\ UNCHANGED << p, i, poolAddresses, requested >>
  /\ UNCHANGED << configVars, uniquePools, currentBlock, from, attempt, count, chainEvents,
                  found, exhausted, surfaced, waited, scan, detailVars, outputVars, probeVars >>

\* await sleep(BATCH_DELAY_MS) at the end of an enumeration chunk (clean).
EnumSleep ==
  /\ pc = "enumSleep"
  /\ IF i + EnumChunk(mode) < count
     THEN pc' = "enumerate" /\ i' = i + EnumChunk(mode)
     ELSE pc' = "detail" /\ i' = 0
  /\ UNCHANGED << configVars, p, discoveryVars, detailVars, outputVars, probeVars >>

\* A slice that reaches one address into the next chunk.
BatchOverlapping ==
  SubSeq(poolAddresses, i + 1, Lesser(i + BATCH_SIZE(mode) + 1, Len(poolAddresses)))

\* batchAddrs = poolAddresses.slice(i, i + BATCH_SIZE)
Batch == SubSeq(poolAddresses, i + 1, Lesser(i + BATCH_SIZE(mode), Len(poolAddresses)))

\* A catch block of the detail chunk that empties the accumulator.
BatchFailedDiscarding(acc) == << >>

\* catch (err) of the detail chunk's try: the error is logged (clean, first) or
\* swallowed (strict); the accumulator acc is not touched.
BatchFailed(acc) == acc

\* `i += BATCH_SIZE` and the loop test of the detail loop: the next chunk, or the
\* end of the protocol.
NextChunk ==
  IF i + BATCH_SIZE(mode) < Len(poolAddresses)
  THEN pc' = "detail" /\ i' = i + BATCH_SIZE(mode) /\ p' = p
  ELSE pc' = "proto" /\ i' = 0 /\ p' = p + 1

\* Head of a detail chunk: the batch is sliced, its calls are encoded and
\* multicall.aggregate(calls) is sent; main() awaits the answer.
DetailIssue ==
  /\ pc = "detail"
  /\ issued' = issued + 1
  /\ chunks' = Append(chunks, Batch)
  /\ lastChunk' = [status |-> "issued",
                   calls |-> DetailCalls(protocols[p].abiType, Batch)]
  /\ pc' = "aggregate"
  /\ UNCHANGED << configVars, p, i, discoveryVars, allPools, keptCount, droppedCount,
                  failedBatches, settled, slept, outputVars, probeVars >>

\* The awaited aggregate call settles.  It returns one buffer per call and the
\* whole per-address loop runs; or it throws into the outer catch and nothing is
\* decoded: the request failed in transport (reverted = 0), or call number
\* `reverted` reverted, which makes aggregate revert as a whole (returnData has
\* no per-call success flag).  Then the sleep, in the revisions that have one.
DetailChunk ==
  /\ pc = "aggregate"
  /\ settled' = settled + 1
  /\ \/ \E answers \in [1..Len(Batch) -> Contracts(protocols[p].abiType)] :
          LET results == Flatten(answers)
              trace == DecodeLoop(mode, protocols[p].abiType, Batch, results, 1, 0)
          IN /\ allPools' = Push(allPools, Pushed(mode, protocols[p], trace))
             /\ keptCount' = IF mode = "first" THEN keptCount
                             ELSE keptCount + CountOutcome(trace, {"kept"})
             /\ droppedCount' = IF mode = "clean"
                                THEN droppedCount + DroppedIn(trace)
                                ELSE droppedCount
             /\ lastChunk' = [status |-> "ok", abiType |-> protocols[p].abiType,
                              calls |-> lastChunk.calls, results |-> results,
                              trace |-> trace]
     \/ \E reverted \in 0..Len(lastChunk.calls) :
          /\ lastChunk' = [status |-> "failed", reverted |-> reverted]
          /\ allPools' = BatchFailed(allPools)
          /\ UNCHANGED << keptCount, droppedCount >>
  /\ IF Paces(mode) THEN pc' = "sleep" /\ i' = i /\ p' = p ELSE NextChunk
  /\ UNCHANGED << configVars, discoveryVars, issued, chunks, failedBatches, slept,
                  outputVars, probeVars >>

\* await sleep(BATCH_DELAY_MS) at the end of a detail chunk, then the loop head.
DetailSleep ==
  /\ pc = "sleep"
  /\ slept' = slept + 1
  /\ lastChunk' = NoChunk
  /\ NextChunk
  /\ UNCHANGED << configVars, discoveryVars, allPools, keptCount, droppedCount, issued, chunks,
                  failedBatches,
                  settled, outputVars, probeVars >>

\* A write placed inside the protocol loop.
WriteDueInsideLoop == pc = "proto"

\* The statement after `for (const proto of PROTOCOLS)` is reached: the loop has
\* run over every protocol.
WriteDue == pc = "proto" /\ p > NumProtocols

\* After the last protocol: fs.writeFileSync(outputPath, JSON.stringify(allPools)).
WriteOutput ==
  /\ WriteDue
  /\ written' = TRUE
  /\ output' = allPools
  /\ pc' = "done"
  /\ UNCHANGED << configVars, p, i, discoveryVars, detailVars, probeVars >>

Next ==
  \/ Connect
  \/ BeginProtocol
  \/ GetBlockNumber
  \/ GetLogs
  \/ ReadCount
  \/ EnumerateChunk
  \/ EnumSleep
  \/ DetailIssue
  \/ DetailChunk
  \/ DetailSleep
  \/ WriteOutput

Spec == Init /\ [][Next]_vars

\* ------------------------------------------------------------ the first revision
InitFirst ==
  /\ mode = "first"
  /\ protocols = PROTOCOLS
  /\ InitPipeline
  /\ probe = NoProbe
  /\ verdict = "none"

NextFirst ==
  \/ Connect
  \/ BeginProtocol
  \/ GetBlockNumber
  \/ GetLogsFirst
  \/ ReadCount
  \/ EnumerateChunk
  \/ DetailIssue
  \/ DetailChunk
  \/ WriteOutput

SpecFirst == InitFirst /\ [][NextFirst]_vars

\* ------------------------------------------------------------ another PROTOCOLS array
\* PROTOCOLS arrays of one registry-enumerated protocol whose abiType is one the
\* script's branches name, or one they do not name.
ConfiguredProtocols ==
  { << [name |-> "NewDex", type |-> "v2", router |-> 85, method |-> "allPairs",
        abiType |-> a] >> : a \in {"std_v2", "aero_v2", "v2", "solidly"} }

InitConfig ==
  /\ mode \in Modes
  /\ protocols \in ConfiguredProtocols
  /\ InitPipeline
  /\ probe = NoProbe
  /\ verdict = "none"

NextConfig ==
  \/ Connect
  \/ BeginProtocol
  \/ ReadCount
  \/ EnumerateChunk
  \/ EnumSleep
  \/ DetailIssue
  \/ DetailChunk
  \/ DetailSleep
  \/ WriteOutput

SpecConfig == InitConfig /\ [][NextConfig]_vars

\* ------------------------------------------------------------ one pool, any state
\* The per-address loop body applied to a single pool whose on-chain state is
\* drawn from every combination of tokens, reserves or liquidity and flag.
Tokens == {JUNK, WETH, USDC, AERO}
Words == 0..MaxWord

ProbeStates ==
  [abiType : {"v3"}, t0 : Tokens, t1 : Tokens, liq : Words, fee : {5}, ts : {7}]
  \cup [abiType : {"std_v2"}, t0 : Tokens, t1 : Tokens, r0 : Words, r1 : Words,
        isStable : {FALSE}]
  \cup [abiType : {"aero_v2"}, t0 : Tokens, t1 : Tokens, r0 : Words, r1 : Words,
        isStable : BOOLEAN]

\* The return buffers a pool in state st gives to the calls of its variant.
EncodeState(st) ==
  IF st.abiType = "v3"
  THEN << <<st.t0>>, <<st.t1>>, <<st.liq>>, <<st.fee>>, <<st.ts>> >>
  ELSE IF st.abiType = "aero_v2"
  THEN << <<st.t0>>, <<st.t1>>, <<st.r0, st.r1, 0>>, <<IF st.isStable THEN 1 ELSE 0>> >>
  ELSE << <<st.t0>>, <<st.t1>>, <<st.r0, st.r1, 0>> >>

\* The first protocol of PROTOCOLS that is decoded as abiType.
ProtocolOf(abiType) ==
  PROTOCOLS[Min({ q \in 1..Len(PROTOCOLS) : PROTOCOLS[q].abiType = abiType })]

InitClassify ==
  /\ mode \in Modes
  /\ protocols = PROTOCOLS
  /\ InitPipeline
  /\ probe \in ProbeStates
  /\ verdict = "none"

\* The detail loop body for the probed pool: decode its buffers, classify, push.
ClassifyProbe ==
  /\ verdict = "none"
  /\ LET results == EncodeState(probe)
         trace == DecodeLoop(mode, probe.abiType, << PoolAt(1, 0) >>, results, 1, 0)
     IN /\ allPools' = Push(allPools, Pushed(mode, ProtocolOf(probe.abiType), trace))
        /\ keptCount' = keptCount + CountOutcome(trace, {"kept"})
        /\ droppedCount' = IF mode = "clean"
                           THEN droppedCount + DroppedIn(trace)
                           ELSE droppedCount
        /\ lastChunk' = [status |-> "ok", abiType |-> probe.abiType,
                         calls |-> DetailCalls(probe.abiType, << PoolAt(1, 0) >>),
                         results |-> results, trace |-> trace]
        /\ verdict' = trace[1].outcome
  /\ UNCHANGED << configVars, pc, p, i, discoveryVars, issued, chunks, failedBatches, settled,
                  slept,
                  outputVars, probe >>

NextClassify == ClassifyProbe

SpecClassify == InitClassify /\ [][NextClassify]_vars

\* ------------------------------------------------------------ the full scanner
\* src/unnamed/part_000: the Aerodrome full scanner (mode "full").  It reads the
\* registry count, then for each batch of indices fetches the addresses with one
\* aggregate call and their token0, token1 and getReserves with another, and
\* records every pool that decodes, unfiltered.
BATCH_SIZE_FULL == 2

\* What a pool contract can answer to token0, token1, getReserves: the answers
\* of a constant-product pair, and a pair whose token1 alone returns nothing.
FullContracts ==
  Contracts("std_v2") \cup { << <<WETH>>, << >>, <<17, 9, 30>> >> }

\* end = Math.min(i + BATCH_SIZE, totalPools)
FullEnd == Lesser(i + BATCH_SIZE_FULL, count)

\* A decoder that reads every address from the slots of the first one.
BaseIndexFirst(k) == 0 * k

\* baseIndex = k * 3, k counted from 0.
BaseIndex(k) == k * 3

\* The body of the loop over k for the k-th address (from 0) of a batch that
\* starts at registry index base: nothing when the token0 buffer is '0x' or a
\* decode throws, else the one record pushed.
FullRecordsOf(base, addrs, results, k) ==
  IF \/ results[BaseIndex(k) + 1] = << >>
     \/ ~Decodable(results, BaseIndex(k) + 1, 1)
     \/ ~Decodable(results, BaseIndex(k) + 2, 1)
     \/ ~Decodable(results, BaseIndex(k) + 3, 3)
  THEN << >>
  ELSE << [index |-> base + k, address |-> addrs[k + 1],
           token0 |-> results[BaseIndex(k) + 1][1],
           token1 |-> results[BaseIndex(k) + 2][1],
           reserve0 |-> results[BaseIndex(k) + 3][1],
           reserve1 |-> results[BaseIndex(k) + 3][2]] >>

\* The records of a batch, for k, k + 1, ... in order.
RECURSIVE FullRecords(_, _, _, _)
FullRecords(base, addrs, results, k) ==
  IF k >= Len(addrs) THEN << >>
  ELSE FullRecordsOf(base, addrs, results, k) \o FullRecords(base, addrs, results, k + 1)

\* A catch block of the batch that empties the accumulator.
FullBatchFailedDiscarding(acc) == << >>

\* catch (err) of the batch's try: the error is logged, the accumulator acc is
\* not touched.
FullBatchFailed(acc) == acc

\* `i += BATCH_SIZE` and the loop test: the next batch, or the statements after
\* the loop.
FullNextBatch ==
  IF i + BATCH_SIZE_FULL < count
  THEN pc' = "fullAddresses" /\ i' = i + BATCH_SIZE_FULL
  ELSE pc' = "fullWrite" /\ i' = i

fullUnused == << configVars, p, uniquePools, currentBlock, from, attempt, chainEvents,
                 found, exhausted, surfaced, waited, requested, scan, keptCount,
                 droppedCount, issued, chunks, settled, slept, probeVars >>

InitFull ==
  /\ mode = "full"
  /\ protocols = PROTOCOLS
  /\ InitPipeline
  /\ probe = NoProbe
  /\ verdict = "none"

\* provider.getBlockNumber() at startup: on failure process.exit(1).
FullConnect ==
  /\ pc = "start"
  /\ pc' = "fullCount" \/ pc' = "exited"
  /\ UNCHANGED << fullUnused, i, count, poolAddresses, allPools, lastChunk, failedBatches,
                  outputVars >>

\* await factory.allPoolsLength(): a failure is caught by the outer catch, which
\* logs it; main() returns without writing.
FullReadCount ==
  /\ pc = "fullCount"
  /\ \/ \E c \in 0..MaxPools :
          /\ count' = c
          /\ pc' = IF c > 0 THEN "fullAddresses" ELSE "fullWrite"
     \/ /\ pc' = "aborted"
        /\ count' = count
  /\ i' = 0
  /\ UNCHANGED << fullUnused, poolAddresses, allPools, lastChunk, failedBatches,
                  outputVars >>

\* Step A of a batch: await multicall.aggregate(addressCalls) and the decode of
\* the addresses; a failure goes to the batch's catch.
FullAddresses ==
  /\ pc = "fullAddresses"
  /\ \/ /\ poolAddresses' = RegistrySlice(1, i, FullEnd)
        /\ lastChunk' = [status |-> "addresses", base |-> i]
        /\ pc' = "fullDetails"
        /\ UNCHANGED << i, allPools, failedBatches >>
     \/ /\ failedBatches' = failedBatches \cup { << i, FullEnd >> }
        /\ allPools' = FullBatchFailed(allPools)
        /\ lastChunk' = [status |-> "failed", base |-> i, call |-> "addresses"]
        /\ FullNextBatch
        /\ UNCHANGED poolAddresses
  /\ UNCHANGED << fullUnused, count, outputVars >>

\* Step B of a batch: await multicall.aggregate(detailCalls), then the loop over
\* k; a failure of the call goes to the batch's catch.
FullDetails ==
  /\ pc = "fullDetails"
  /\ \/ \E answers \in [1..Len(poolAddresses) -> FullContracts] :
          /\ allPools' = Push(allPools, FullRecords(i, poolAddresses, Flatten(answers), 0))
          /\ lastChunk' = [status |-> "ok", base |-> i, addrs |-> poolAddresses,
                           results |-> Flatten(answers)]
          /\ UNCHANGED failedBatches
     \/ /\ failedBatches' = failedBatches \cup { << i, FullEnd >> }
        /\ allPools' = FullBatchFailed(allPools)
        /\ lastChunk' = [status |-> "failed", base |-> i, call |-> "details"]
  /\ FullNextBatch
  /\ UNCHANGED << fullUnused, count, poolAddresses, outputVars >>

\* After the loop: fs.writeFileSync(outputPath, JSON.stringify(allPools)).
FullWrite ==
  /\ pc = "fullWrite"
  /\ written' = TRUE
  /\ output' = allPools
  /\ pc' = "done"
  /\ UNCHANGED << fullUnused, i, count, poolAddresses, allPools, lastChunk, failedBatches >>

NextFull ==
  \/ FullConnect
  \/ FullReadCount
  \/ FullAddresses
  \/ FullDetails
  \/ FullWrite

SpecFull == InitFull /\ [][NextFull]_vars

\* ------------------------------------------------------------ properties
OwnStart(k, abiType) == (k - 1) * CallsPerAddress(abiType)

\* C1: in every decoded chunk each address is read from its own result slots,
\* those starting at (position in chunk) x (calls per variant): an address whose
\* token0 slot does not decode gets no record, and an address whose own slots all
\* decode is classified on the state those slots hold.
C1_PositionalDecoding ==
  lastChunk.status = "ok" =>
    \A k \in 1..Len(lastChunk.trace) :
      LET own == OwnStart(k, lastChunk.abiType)
          e == lastChunk.trace[k]
      IN /\ e.start = own
         /\ ~Decodable(lastChunk.results, own + 1, 1) => e.outcome = "threw"
         /\ FailingCalls(lastChunk.abiType, lastChunk.results, own) = {} =>
              /\ e.outcome # "threw"
              /\ e.st = DecodeState(lastChunk.abiType, lastChunk.results, own)

\* C2: no failed RPC call aborts the run.
C2_RunNeverAborts == pc # "aborted"

\* C3: a log window whose every attempt failed has its failure surfaced to the
\* caller of getLogsWithRetry.
C3_ExhaustedWindowSurfaced == exhausted \subseteq surfaced

NoDuplicates(s) == \A a, b \in 1..Len(s) : s[a] = s[b] => a = b

\* C4: the address list the event scan hands to the detail phase holds no address
\* twice.
C4_NoDuplicateLogAddress ==
  (pc = "detail" /\ protocols[p].method = "logs") => NoDuplicates(poolAddresses)

C6_RecordHasWhitelistedToken ==
  \A k \in 1..Len(allPools) :
    isWhitelisted(allPools[k].token_a) \/ isWhitelisted(allPools[k].token_b)

\* A chunk in which a decoded pool passed no whitelist test and was dropped,
\* beside one that was kept.
C6_Witness ==
  /\ lastChunk.status = "ok"
  /\ \E k \in 1..Len(lastChunk.trace) :
       /\ lastChunk.trace[k].outcome = "dropped"
       /\ ~isWhitelisted(lastChunk.trace[k].st.t0)
       /\ ~isWhitelisted(lastChunk.trace[k].st.t1)
  /\ \E k \in 1..Len(lastChunk.trace) : lastChunk.trace[k].outcome = "kept"
  /\ allPools # << >>

ExactlyOneWhitelisted(t0, t1) == isWhitelisted(t0) # isWhitelisted(t1)

\* C7: a concentrated-liquidity pool with exactly one whitelisted token is accepted
\* only if its liquidity exceeds the high tier threshold.
C7_OneSidedNeedsHighTier ==
  (/\ verdict # "none"
   /\ probe.abiType = "v3"
   /\ ExactlyOneWhitelisted(probe.t0, probe.t1)
   /\ probe.liq <= MIN_V3_LIQ_HIGH) => verdict # "kept"

NativeSided(st) ==
  /\ st.abiType \in {"std_v2", "aero_v2"}
  /\ ~st.isStable
  /\ getTokenType(st.t0) = "ETH"
  /\ ~isWhitelisted(st.t1)

Threshold(m, t) ==
  IF getTokenType(t) = "ETH" THEN MIN_ETH_LIQUIDITY(m)
  ELSE IF getTokenType(t) = "USD" THEN MIN_USDC_LIQUIDITY(m)
  ELSE MIN_OTHER_LIQUIDITY(m)

\* C10: a non-stable constant-product pool is accepted if and only if one of its
\* sides is whitelisted and that side's reserve is at least the threshold of the
\* token's class.
C10_SideThresholdInclusive ==
  (/\ verdict # "none"
   /\ probe.abiType \in {"std_v2", "aero_v2"}
   /\ ~probe.isStable) =>
     (verdict = "kept" <=>
        \/ isWhitelisted(probe.t0) /\ probe.r0 >= Threshold(mode, probe.t0)
        \/ isWhitelisted(probe.t1) /\ probe.r1 >= Threshold(mode, probe.t1))

\* C11: a call that reverts inside the aggregation contract does not make the
\* aggregate invocation fail (its slot alone comes back empty, the other calls
\* return their results): a detail aggregate call fails only in transport.
C11_RevertIsSoftFailure ==
  lastChunk.status = "failed" => lastChunk.reverted = 0

\* C12: when the aggregate call of a detail chunk fails, no record is appended and
\* the accumulator keeps the records it had; after the sleep the loop goes on with
\* the next chunk, or ends the protocol, without a second call for the failed one.
C12_FailedChunkSkipped ==
  [][ /\ (pc = "aggregate" /\ lastChunk'.status = "failed") =>
           /\ allPools' = allPools
           /\ keptCount' = keptCount
           /\ i' = i
           /\ pc' = "sleep"
      /\ (pc = "sleep" /\ lastChunk.status = "failed") =>
           /\ allPools' = allPools
           /\ issued' = issued
           /\ \/ pc' = "detail" /\ i' = i + BATCH_SIZE(mode)
              \/ pc' = "proto" /\ i + BATCH_SIZE(mode) >= Len(poolAddresses) ]_vars

\* A chunk that failed in transport while the accumulator holds records and
\* another chunk of the same protocol is left.
C12_Witness ==
  /\ pc = "sleep"
  /\ lastChunk.status = "failed"
  /\ lastChunk.reverted = 0
  /\ allPools # << >>
  /\ i + BATCH_SIZE(mode) < Len(poolAddresses)

\* C13: no two detail aggregate calls are issued without a completed pacing sleep
\* between them.
C13_SleepBetweenDetailCalls == issued - slept <= 1

\* C14: at most one detail aggregate call is in flight, and a chunk's call is
\* issued only when every earlier chunk of the protocol has settled (returned and
\* been classified, or failed) and has had its pacing sleep.
C14_ChunksStrictlySequential ==
  [][ /\ issued' - settled' \in {0, 1}
      /\ issued' = issued + 1 => (settled = issued /\ slept = issued) ]_vars

\* The call of a protocol's second chunk is in flight.
C14_Witness ==
  /\ pc = "aggregate"
  /\ issued = 2
  /\ settled = 1
  /\ slept = 1

\* C15: every `calls` array handed to one aggregate invocation, in the registry
\* enumeration and in the detail loop, holds at most BATCH_SIZE calls.
C15_CallsWithinBatchSize ==
  /\ \A k \in 1..Len(requested) : Len(requested[k]) <= BATCH_SIZE(mode)
  /\ lastChunk.status = "issued" => Len(lastChunk.calls) <= BATCH_SIZE(mode)

Enumerated(q) == pc \in {"detail", "aggregate", "sleep"} /\ protocols[q].method # "logs"

C17_ScanCoversRange ==
  (scan.done /\ scan.start <= scan.head) =>
    /\ \A b \in scan.start..scan.head :
         \E w \in scan.windows : w[1] <= b /\ b <= w[2]
    /\ \A w \in scan.windows : w[2] <= scan.head /\ w[2] - w[1] <= Step(mode)

\* C18: an address with a call of its own slice that does not decode gets no
\* record.
C18_UndecodableAddressDropped ==
  lastChunk.status = "ok" =>
    \A k \in 1..Len(lastChunk.trace) :
      FailingCalls(lastChunk.abiType, lastChunk.results,
                   OwnStart(k, lastChunk.abiType)) # {}
        => lastChunk.trace[k].outcome # "kept"

ConfigValid == \A q \in 1..Len(protocols) : protocols[q].abiType \in KnownAbiTypes

\* C20: on a PROTOCOLS array with an unknown abiType no detail call is encoded or
\* issued and no record is produced.
C20_ConfigErrorFatalAtStartup ==
  ~ConfigValid => (issued = 0 /\ allPools = << >>)

\* C21: every recoverable failure is counted by the script: the step in which a
\* log window exhausts its retries, the step in which the aggregate call of a
\* detail chunk fails, and every address of a decoded chunk whose decode threw,
\* each raise the failure counter droppedCount.
C21_FailuresCounted ==
  [][ /\ exhausted' # exhausted => droppedCount' > droppedCount
      /\ (pc = "aggregate" /\ lastChunk'.status = "failed") =>
           droppedCount' > droppedCount
      /\ (pc = "aggregate" /\ lastChunk'.status = "ok") =>
           droppedCount' >= droppedCount + CountOutcome(lastChunk'.trace, {"threw"})
    ]_vars

DiscoveryFinished ==
  IF protocols[p].method = "logs" THEN scan.done ELSE Len(poolAddresses) = count

\* C23: protocols are processed one after the other in configured order: the
\* script moves to the next protocol only when no detail call of the current one
\* is in flight and every chunk of its address list has been issued, and a detail
\* call is issued only after the discovery of its protocol has finished.
C23_ProtocolsSequential ==
  [][ /\ p' = p \/ p' = p + 1
      /\ p' = p + 1 =>
           /\ settled' = issued'
           /\ issued' * BATCH_SIZE(mode) >= Len(poolAddresses')
      /\ issued' = issued + 1 => (p' = p /\ DiscoveryFinished) ]_vars

\* The detail call of the second protocol is in flight after the first protocol
\* left records and the second one was enumerated: its second chunk.
C23_Witness ==
  /\ p = 2
  /\ pc = "aggregate"
  /\ allPools # << >>
  /\ issued = 2
  /\ Len(requested) >= 1

IsPrefix(a, b) == Len(a) <= Len(b) /\ SubSeq(b, 1, Len(a)) = a

\* The position in PROTOCOLS of the protocol a record belongs to (routers are
\* distinct), and the pool address the record carries.
ProtocolIndex(r) == CHOOSE q \in 1..Len(protocols) : protocols[q].router = r.router
RecordAddress(r) == IF r.protocol = "v2" THEN r.quoter ELSE r.pool

\* C24: the accumulator is append-only and ordered: every step leaves the records
\* it held as they were, at their positions, and the records stand in the order
\* of PROTOCOLS and, within one protocol, in the order of discovery (registry
\* index, then block of the creation event: addresses rise in that order).
C24_AppendOnlyOrdered ==
  /\ [][IsPrefix(allPools, allPools')]_vars
  /\ [](\A j, k \in 1..Len(allPools) :
          j < k =>
            \/ ProtocolIndex(allPools[j]) < ProtocolIndex(allPools[k])
            \/ /\ ProtocolIndex(allPools[j]) = ProtocolIndex(allPools[k])
               /\ RecordAddress(allPools[j]) <= RecordAddress(allPools[k]))

\* Records of two protocols, two of them of the same protocol, the later chunk
\* having appended to a non-empty accumulator.
C24_Witness ==
  /\ Len(allPools) >= 3
  /\ ProtocolIndex(allPools[1]) < ProtocolIndex(allPools[3])
  /\ \E j \in 1..2 : /\ ProtocolIndex(allPools[j]) = ProtocolIndex(allPools[j + 1])
                     /\ RecordAddress(allPools[j]) < RecordAddress(allPools[j + 1])
  /\ lastChunk.status = "ok"
  /\ CountOutcome(lastChunk.trace, {"kept"}) \in 1..2

\* The positions in a decode trace of the addresses that were kept, in order.
KeptIndices(trace) ==
  SelectSeq([k \in 1..Len(trace) |-> k], LAMBDA k : trace[k].outcome = "kept")

\* The record of allPools pushed for the j-th kept address of the last chunk.
ChunkRecord(j) ==
  allPools[Len(allPools) - Len(KeptIndices(lastChunk.trace)) + j]

\* C25: record shape by protocol type: a record of a v2-type protocol carries the
\* pool address in quoter and has no pool field; a record of a v3- or cl-type
\* protocol carries the protocol's quoter in quoter, the pool address in pool, and
\* the fee tier and tick spacing returned by that same pool.
C25_RecordShape ==
  (pc = "sleep" /\ lastChunk.status = "ok") =>
    \A j \in 1..Len(KeptIndices(lastChunk.trace)) :
      LET k == KeptIndices(lastChunk.trace)[j]
          r == ChunkRecord(j)
          own == OwnStart(k, lastChunk.abiType)
      IN IF protocols[p].type = "v2"
         THEN /\ r.quoter = lastChunk.trace[k].addr
              /\ "pool" \notin DOMAIN r
         ELSE /\ r.quoter = protocols[p].quoter
              /\ r.pool = lastChunk.trace[k].addr
              /\ Decodable(lastChunk.results, own + 4, 1)
              /\ Decodable(lastChunk.results, own + 5, 1)
              /\ r.fee = lastChunk.results[own + 4][1]
              /\ r.tick_spacing = lastChunk.results[own + 5][1]

\* C26: bounded retry: a window gets at most RETRIES getLogs attempts; a further
\* attempt follows only an attempt that failed and collected nothing; and the
\* attempt that succeeds ends the window with its logs collected, in order, with
\* no attempt after it.
C26_BoundedRetry ==
  /\ [](pc = "getLogs" => attempt + 1 <= RETRIES)
  /\ [][ pc = "getLogs" =>
           /\ attempt' = attempt + 1 =>
                /\ pc' = "getLogs"
                /\ from' = from
                /\ scan' = scan
                /\ poolAddresses' = poolAddresses
                /\ uniquePools' = uniquePools
           /\ (scan' # scan /\ exhausted' = exhausted) =>
                /\ from' = from + Step(mode)
                /\ attempt' = 0
                /\ mode = "clean" =>
                     poolAddresses' = poolAddresses \o LogsOf(chainEvents, from, WindowTo)
                /\ mode = "strict" =>
                     uniquePools' = AddAll(uniquePools, LogsOf(chainEvents, from, WindowTo))
       ]_vars

\* The fifth attempt of a window is about to be made, an earlier window having
\* returned a log at its first successful attempt.
C26_Witness ==
  /\ pc = "getLogs"
  /\ attempt = RETRIES - 1
  /\ scan.windows # {}
  /\ exhausted = {}
  /\ poolAddresses # << >> \/ uniquePools # << >>

\* C27: backoff: before attempt n + 1 of a window (n = 1..4 failed attempts) the
\* script has waited base delay x n, 2000 ms times the number of the failed
\* attempt.
C27_LinearBackoff ==
  (pc = "getLogs" /\ attempt >= 1) => waited = RETRY_DELAY_BASE * attempt

\* C28: for each variant the calls of a chunk are, address by address, exactly
\* the variant's call sequence, and the decoder reads the slots of an address in
\* that same order: a chunk of n addresses issues n x 3 (constant-product),
\* n x 4 (stability-flag) or n x 5 (concentrated-liquidity) calls, and the call at
\* the j-th slot of the k-th address is the j-th function the decoder reads, sent
\* to that address.
C28_EncodeMatchesDecode ==
  (pc \in {"aggregate", "sleep"} /\ lastChunk.status \in {"issued", "ok"}) =>
    LET abiType == protocols[p].abiType
        perAddress == IF abiType = "v3" THEN 5 ELSE IF abiType = "aero_v2" THEN 4 ELSE 3
    IN /\ Len(lastChunk.calls) = Len(Batch) * perAddress
       /\ Len(DecodeNames(abiType)) = perAddress
       /\ \A k \in 1..Len(Batch) :
            \A j \in 1..perAddress :
              lastChunk.calls[OwnStart(k, abiType) + j] =
                [target |-> Batch[k], fn |-> DecodeNames(abiType)[j]]

\* A decoded chunk of two or more concentrated-liquidity pools, one of them kept.
C28_Witness ==
  /\ pc = "sleep"
  /\ lastChunk.status = "ok"
  /\ lastChunk.abiType = "v3"
  /\ Len(lastChunk.trace) >= 2
  /\ Len(lastChunk.calls) = 5 * Len(lastChunk.trace)
  /\ lastChunk.trace[2].outcome = "kept"

\* C29: the detail phase cuts the address list into consecutive chunks: the
\* chunks issued so far, one after the other, are a prefix of the list and, once
\* the protocol is finished, the whole list, so that every address is in exactly
\* one chunk and in discovery order; every chunk holds between one and
\* BATCH_SIZE addresses and every chunk but the last exactly BATCH_SIZE; an empty
\* list issues no aggregate call.
C29_ChunksPartitionList ==
  /\ issued = Len(chunks)
  /\ IsPrefix(Flatten(chunks), poolAddresses)
  /\ \A c \in 1..Len(chunks) :
       /\ Len(chunks[c]) \in 1..BATCH_SIZE(mode)
       /\ Len(chunks[c]) < BATCH_SIZE(mode) =>
            (c = Len(chunks) /\ Flatten(chunks) = poolAddresses)
  /\ pc \in {"proto", "done"} => Flatten(chunks) = poolAddresses
  /\ poolAddresses = << >> => issued = 0

\* A protocol finished in two or more chunks, the last one short.
C29_Witness ==
  /\ pc = "proto"
  /\ Len(chunks) >= 2
  /\ Len(chunks[Len(chunks)]) < BATCH_SIZE(mode)
  /\ Len(chunks[1]) = BATCH_SIZE(mode)

\* C30: each address processed in the detail phase contributes at most one
\* record: no two records of the accumulator carry the same pool address.
C30_AtMostOneRecordPerAddress ==
  \A j, k \in 1..Len(allPools) :
    RecordAddress(allPools[j]) = RecordAddress(allPools[k]) => j = k

\* ------------------------------------------------------------ termination
\* The run is over: the output was written, a failed request rejected main(), or
\* the startup check exited.
Terminated == pc \in {"done", "aborted", "exited"}

\* How far the run is from its end, as (iterations left of the protocol loop,
\* statements left before the detail loop, budget left of the loop main() is in).
\* The budget of the window loop counts the blocks left and, within a window, the
\* attempts left; that of the enumeration loop the indices left; that of the
\* detail loop the addresses left; each with the awaits of one iteration.
ProtocolsLeft ==
  IF Terminated THEN 0
  ELSE IF pc = "start" THEN NumProtocols + 2
  ELSE NumProtocols + 2 - p

StatementsLeft ==
  IF pc = "proto" THEN 3
  ELSE IF pc \in {"getBlockNumber", "count"} THEN 2
  ELSE IF pc \in {"getLogs", "enumerate", "enumSleep"} THEN 1
  ELSE 0

LoopBudget ==
  IF pc = "getLogs" THEN (currentBlock - from) * RETRIES + (RETRIES - attempt)
  ELSE IF pc = "enumerate" THEN (count - i) * 2 + 1
  ELSE IF pc = "enumSleep" THEN (count - i) * 2
  ELSE IF pc = "detail" THEN (Len(poolAddresses) - i) * 3 + 2
  ELSE IF pc = "aggregate" THEN (Len(poolAddresses) - i) * 3 + 1
  ELSE IF pc = "sleep" THEN (Len(poolAddresses) - i) * 3
  ELSE 0

Rank == << ProtocolsLeft, StatementsLeft, LoopBudget >>

LexLess(a, b) ==
  \/ a[1] < b[1]
  \/ a[1] = b[1] /\ a[2] < b[2]
  \/ a[1] = b[1] /\ a[2] = b[2] /\ a[3] < b[3]

\* C31: termination: every step of the run (the return or the failure of the
\* request main() awaits) brings the run strictly nearer to its end in a measure
\* that cannot fall below zero: each window fetch uses up one of its attempts
\* or ends the window, each loop over windows, registry indices and chunks
\* advances toward its bound, each protocol ends; and until the output is
\* written or the run aborts a next step is always possible.  So a run whose
\* requests all return or fail reaches the output write or aborts.
C31_Terminates ==
  /\ [][LexLess(Rank', Rank)]_vars
  /\ [](\A n \in 1..3 : Rank[n] >= 0)
  /\ [](~Terminated => ENABLED Next)

\* The output was written after a window of the event scan had used all its
\* attempts and records had been collected.
C31_Witness ==
  /\ pc = "done"
  /\ exhausted # {}
  /\ allPools # << >>

\* C32: the output file is written at most once per run, only after the detail
\* phase of the last configured protocol has finished, and holds exactly the
\* accumulated records; a run that aborts or exits has written nothing.
C32_OutputWrittenOnceAtEnd ==
  /\ [][ /\ written => (written' /\ output' = output /\ allPools' = allPools)
         /\ (~written /\ written') =>
              /\ p = NumProtocols + 1
              /\ settled = issued
              /\ issued * BATCH_SIZE(mode) >= Len(poolAddresses)
              /\ output' = allPools
              /\ pc' = "done" ]_vars
  /\ [](written <=> pc = "done")
  /\ [](~written => output = << >>)

\* The file was written with records of two protocols in it.
C32_Witness ==
  /\ written
  /\ Len(output) >= 2
  /\ output = allPools
  /\ ProtocolIndex(output[1]) < ProtocolIndex(output[Len(output)])

\* What the loop body does with a pool in state st, decoded from its own buffers.
OutcomeOf(m, st) == AddressOutcome(m, st.abiType, EncodeState(st), 0)

\* C33: the classifier is monotone in magnitude: a pool that is kept (tokens and
\* variant fixed, not stable) is also kept with any reserves at least as large
\* on both sides, or with any liquidity at least as large.
C33_ClassifierMonotone ==
  verdict = "kept" =>
    IF probe.abiType = "v3"
    THEN \A liq \in probe.liq..MaxWord :
           OutcomeOf(mode, [probe EXCEPT !.liq = liq]) = "kept"
    ELSE \A r0 \in probe.r0..MaxWord :
           \A r1 \in probe.r1..MaxWord :
             OutcomeOf(mode, [probe EXCEPT !.r0 = r0, !.r1 = r1]) = "kept"

\* A constant-product pool kept exactly at its threshold: one unit less on the
\* clearing side is rejected, everything above is compared with it.
C33_Witness ==
  /\ verdict = "kept"
  /\ probe.abiType = "std_v2"
  /\ probe.t0 = WETH
  /\ probe.t1 = JUNK
  /\ probe.r0 = MIN_ETH_LIQUIDITY(mode)
  /\ probe.r1 = 0
  /\ OutcomeOf(mode, [probe EXCEPT !.r0 = probe.r0 - 1]) # "kept"

\* C34: full scanner: every record's index is the registry index at which its
\* address was enumerated, and the records of a decoded batch carry, for the
\* k-th address of the batch (from 0, at registry index i + k), the token0,
\* token1 and reserves held by the detail result slots 3k, 3k + 1 and 3k + 2,
\* whatever the other addresses of the batch returned.
C34_FullPositionalRecords ==
  /\ \A n \in 1..Len(allPools) : allPools[n].address = PoolAt(1, allPools[n].index)
  /\ lastChunk.status = "ok" =>
       \A n \in 1..Len(allPools) :
         LET r == allPools[n]
             k == r.index - lastChunk.base
         IN (k >= 0 /\ k < Len(lastChunk.addrs)) =>
              /\ r.address = lastChunk.addrs[k + 1]
              /\ Decodable(lastChunk.results, 3 * k + 1, 1)
              /\ Decodable(lastChunk.results, 3 * k + 2, 1)
              /\ Decodable(lastChunk.results, 3 * k + 3, 3)
              /\ r.token0 = lastChunk.results[3 * k + 1][1]
              /\ r.token1 = lastChunk.results[3 * k + 2][1]
              /\ r.reserve0 = lastChunk.results[3 * k + 3][1]
              /\ r.reserve1 = lastChunk.results[3 * k + 3][2]

\* The second batch was decoded: its first address returned '0x' for token0 and
\* left no record, its second address left one.
C34_Witness ==
  /\ lastChunk.status = "ok"
  /\ lastChunk.base = BATCH_SIZE_FULL
  /\ Len(lastChunk.addrs) = 2
  /\ lastChunk.results[1] = << >>
  /\ lastChunk.results[5] # << >>
  /\ allPools # << >>
  /\ allPools[Len(allPools)].index = lastChunk.base + 1
  /\ \A n \in 1..Len(allPools) : allPools[n].index # lastChunk.base

\* C35: full scanner: when the address call or the detail call of a batch fails,
\* no record with a registry index of that batch's range [i, end) is ever in the
\* accumulator, the records of earlier batches stay, the loop goes on with the
\* next batch, or past the last one to the write, and the output is written.
C35_FullFailedBatchSkipped ==
  /\ [](\A b \in failedBatches :
          \A n \in 1..Len(allPools) :
            ~(allPools[n].index >= b[1] /\ allPools[n].index < b[2]))
  /\ [][ /\ IsPrefix(allPools, allPools')
         /\ failedBatches' # failedBatches =>
              /\ allPools' = allPools
              /\ \/ pc' = "fullAddresses" /\ i' = i + BATCH_SIZE_FULL /\ i' < count
                 \/ pc' = "fullWrite" /\ i + BATCH_SIZE_FULL >= count ]_vars
  /\ [](failedBatches # {} =>
          /\ pc \in {"fullAddresses", "fullDetails", "fullWrite", "done"}
          /\ pc # "done" => ENABLED NextFull
          /\ pc = "done" => (written /\ output = allPools))

\* The output was written with the records of the first batch in it, the second
\* batch having failed.
C35_Witness ==
  /\ pc = "done"
  /\ written
  /\ failedBatches = { << BATCH_SIZE_FULL, 2 * BATCH_SIZE_FULL >> }
  /\ Len(output) = BATCH_SIZE_FULL
  /\ lastChunk.status = "failed"

\* C36: counters of the detail phase (clean revision): during the detail loop
\* keptCount is the number of records appended for the current protocol; a chunk
\* whose aggregate call succeeded raises keptCount by the records it appended
\* and keptCount + droppedCount by the number of its addresses; a chunk whose
\* call failed changes neither counter; both counters start at zero with each
\* protocol and no other step changes them.
C36_DetailCounters ==
  /\ []((mode = "clean" /\ pc \in {"detail", "aggregate", "sleep"}) =>
          keptCount =
            Cardinality({ n \in 1..Len(allPools) : ProtocolIndex(allPools[n]) = p }))
  /\ [][ mode = "clean" =>
           /\ (pc = "aggregate" /\ lastChunk'.status = "ok") =>
                /\ keptCount' - keptCount = Len(allPools') - Len(allPools)
                /\ (keptCount' + droppedCount') - (keptCount + droppedCount) = Len(Batch)
           /\ (pc = "aggregate" /\ lastChunk'.status = "failed") =>
                (keptCount' = keptCount /\ droppedCount' = droppedCount)
           /\ (pc = "proto" /\ p <= NumProtocols) => (keptCount' = 0 /\ droppedCount' = 0)
           /\ (pc # "aggregate" /\ ~(pc = "proto" /\ p <= NumProtocols)) =>
                (keptCount' = keptCount /\ droppedCount' = droppedCount) ]_vars

\* After the second chunk of a protocol, the first having failed: one address
\* was kept, one was rejected or undecodable, and the failed chunk's addresses
\* are in neither counter.
C36_Witness ==
  /\ mode = "clean"
  /\ pc = "sleep"
  /\ lastChunk.status = "ok"
  /\ issued = 2
  /\ Len(poolAddresses) = 2 * BATCH_SIZE(mode)
  /\ keptCount = 1
  /\ droppedCount = 1
  /\ CountOutcome(lastChunk.trace, {"threw"}) = 1

====
